---- MODULE Spec2Model ----
(***************************************************************************)
(* TicketPipeline: the ETL pipeline (pipeline_etl.py) and the ELT pipeline *)
(* (pipeline_elt.py) over the 311 service-request feed.                    *)
(*                                                                         *)
(* Text is a tuple of one-character strings, so that upper(), lower(),     *)
(* strip() and split() are computed and not assumed.  A timestamp is a     *)
(* day number and a second of that day.  A REAL number of hours is held    *)
(* exactly, as a number of days plus a fraction of a day in the unit of    *)
(* the computation that produced it: seconds (pandas total_seconds) or     *)
(* 2^-31 day, the spacing of IEEE doubles at today's Julian day numbers    *)
(* (SQLite julianday).  The products (a - b) * 24 of SQLite that occur     *)
(* have at most 36 significant bits and are exact; a quotient secs / 3600  *)
(* of pandas is rounded to 53 bits, which changes neither its order        *)
(* against an integer nor its equality with a multiple of 2^-28.           *)
(***************************************************************************)
EXTENDS Integers, Sequences, FiniteSets, TLC

VARIABLES
    environ,            \* os.environ["SLA_HOURS"] at import, or None
    mode,               \* the pipeline that runs: "ETL" or "ELT"
    pc,                 \* run(): the statement that executes next
    exc,                \* run(): the exception in flight, or NoExc
    calls,              \* the calls made on the sqlite3 API, in order
    log,                \* the messages logged so far
    feed,               \* what the 311 endpoint serves: parsed request rows
    mapping,            \* the boundaries file: its columns and rows
    acs,                \* the ACS file: its rows
    df,                 \* the frame extract_311 returned
    extracted,          \* what extract_acs_and_mapping returned or raised
    tf,                 \* ETL: the frame transform_311 returned
    schema,             \* the tables and views that exist in the store
    fact_requests,      \* ETL: the rows of table fact_requests
    dim_area_extended,  \* ETL: the rows of table dim_area_extended
    stg_requests,       \* ELT: the rows of table stg_requests
    stg_demographics,   \* ELT: the rows of table stg_demographics
    stg_area_map        \* ELT: the rows of table stg_area_map

cfgVars == <<environ, mode>>
ctlVars == <<pc, exc, calls>>
inVars == <<feed, mapping, acs>>
memVars == <<df, extracted, tf>>
etlStore == <<fact_requests, dim_area_extended>>
eltStore == <<stg_requests, stg_demographics, stg_area_map>>
storeVars == <<schema, etlStore, eltStore>>

vars == <<cfgVars, ctlVars, log, inVars, memVars, storeVars>>

(***************************************************************************)
(* Text                                                                    *)
(***************************************************************************)
LowerCase == <<"a","b","c","d","e","f","g","h","i","j","k","l","m",
               "n","o","p","q","r","s","t","u","v","w","x","y","z">>
UpperCase == <<"A","B","C","D","E","F","G","H","I","J","K","L","M",
               "N","O","P","Q","R","S","T","U","V","W","X","Y","Z">>

\* the value pandas and SQLite hold for a missing text cell
NaN == <<"NaN">>

UpperChar(c) ==
    IF \E i \in 1..26 : LowerCase[i] = c
    THEN UpperCase[CHOOSE i \in 1..26 : LowerCase[i] = c]
    ELSE c

\* str.upper() / SQL UPPER(): a missing value stays missing
Upper(s) == IF s = NaN THEN NaN ELSE [i \in 1..Len(s) |-> UpperChar(s[i])]

COMPLETED == <<"C","O","M","P","L","E","T","E","D">>

(***************************************************************************)
(* Configuration                                                           *)
(***************************************************************************)
None == <<"None">>

Digits == <<"0","1","2","3","4","5","6","7","8","9">>

DigitValue(c) == (CHOOSE i \in 1..10 : Digits[i] = c) - 1

RECURSIVE int(_)
int(s) == IF s = <<>> THEN 0
          ELSE 10 * int(SubSeq(s, 1, Len(s) - 1)) + DigitValue(s[Len(s)])

\* os.getenv(name, default)
getenv(value, default) == IF value = None THEN default ELSE value

\* SLA_HOURS = int(os.getenv("SLA_HOURS", "72"))
SLA_HOURS == int(getenv(environ, <<"7","2">>))

(***************************************************************************)
(* Timestamps, text dates and REAL hours                                   *)
(***************************************************************************)
\* pandas' missing timestamp; SQL NULL / a missing number; a number that
\* may be NULL
NaT == [nat |-> TRUE]
NULL == [null |-> TRUE]
Num(n) == [num |-> n]

Timestamp(d, s) == [day |-> d, sec |-> s]

\* Series.dt.strftime("%Y-%m-%d %H:%M:%S"): the text of a timestamp; NaT
\* becomes a missing value, stored as NULL
strftime(ts) ==
    IF ts = NaT THEN NULL
    ELSE [date |-> ts.day,
          H |-> ts.sec \div 3600,
          M |-> (ts.sec % 3600) \div 60,
          S |-> ts.sec % 60]

\* a number of hours, exactly: days + part seconds ("s"), or
\* days + part * 2^-31 day ("u"); 0 <= part < one day
Real(d, p, u) == [days |-> d, part |-> p, unit |-> u]

\* round(s * 2^31 / 86400) = round(s * 2^24 / 675), to nearest: the fraction
\* of the double nearest to a Julian day number, in units of 2^-31 day
\* (86400 = 2^7 * 675; 675 is odd, so no tie arises)
Ulps(s) ==
    LET q  == s \div 675
        m  == s % 675
        q1 == (m * 4096) \div 675
        r1 == (m * 4096) % 675
        q2 == (r1 * 4096) \div 675
        r2 == (r1 * 4096) % 675
    IN  q * 16777216 + q1 * 4096 + q2 + (IF 2 * r2 > 675 THEN 1 ELSE 0)

\* SQLite JULIANDAY(text): iJD / 86400000.0 as a double, NULL for NULL
JULIANDAY(text) ==
    IF text = NULL THEN NULL
    ELSE [day |-> text.date,
          frac |-> Ulps(text.H * 3600 + text.M * 60 + text.S)]

\* SQL a - b on doubles of one binade: exact; NULL if either is NULL
SqlSub(a, b) ==
    IF a = NULL \/ b = NULL THEN NULL
    ELSE [day |-> a.day - b.day, frac |-> a.frac - b.frac]

\* SQL x * 24 on such a difference: exact; NULL for NULL
SqlTimes24(x) ==
    IF x = NULL THEN NULL
    ELSE IF x.frac < 0
         THEN Real(x.day - 1, (x.frac + 2147483647) + 1, "u")
         ELSE Real(x.day, x.frac, "u")

\* x <= h for a REAL x and an integer number of hours h
RealLeqInt(x, h) ==
    LET hd == h \div 24
        hr == h % 24
    IN  \/ x.days < hd
        \/ /\ x.days = hd
           /\ IF x.unit = "s"
              THEN x.part <= hr * 3600
              ELSE x.part <= (hr \div 3) * 268435456
                             + ((hr % 3) * 268435456) \div 3

\* x = y for two REALs
RealEq(x, y) ==
    IF x = NULL \/ y = NULL THEN x = y
    ELSE IF x.unit = y.unit THEN x = y
    ELSE LET a == IF x.unit = "s" THEN x ELSE y
             b == IF x.unit = "s" THEN y ELSE x
         IN  /\ a.days = b.days
             /\ a.part % 675 = 0
             /\ b.part % 16777216 = 0
             /\ a.part \div 675 = b.part \div 16777216

(***************************************************************************)
(* ETL: transform_311                                                      *)
(***************************************************************************)
\* (closed - created).dt.total_seconds() / 3600; NaN if either is NaT
ResolutionTimeETL(created, closed) ==
    IF created = NaT \/ closed = NaT THEN NULL
    ELSE LET secs == (closed.day - created.day) * 86400
                     + (closed.sec - created.sec)
         IN  Real(secs \div 86400, secs % 86400, "s")

\* status.str.upper().ne("COMPLETED").astype(int)
OpenFlagETL(status) == IF Upper(status) # COMPLETED THEN 1 ELSE 0

\* the same with < in place of <=
SlaMetETL_strict(status, res, sla_hours) ==
    IF /\ Upper(status) = COMPLETED
       /\ res # NULL
       /\ RealLeqInt(res, sla_hours)
       /\ res # Real(sla_hours \div 24, (sla_hours % 24) * 3600, "s")
    THEN 1 ELSE 0

\* ((status.str.upper() == "COMPLETED") & (resolution_time_h <= sla_hours))
\* .astype(int); a comparison with NaN is False
SlaMetETL(status, res, sla_hours) ==
    IF /\ Upper(status) = COMPLETED
       /\ res # NULL
       /\ RealLeqInt(res, sla_hours)
    THEN 1 ELSE 0

\* df = df.copy(), then the KPI columns are added to it
transform_row(r, sla_hours) ==
    LET res == ResolutionTimeETL(r.created_date, r.closed_date)
    IN  [resolution_time_h |-> res,
         open_flag |-> OpenFlagETL(r.status),
         sla_met |-> SlaMetETL(r.status, res, sla_hours),
         sla_target_h |-> sla_hours] @@ r

transform_311(frame, sla_hours) ==
    [i \in 1..Len(frame) |-> transform_row(frame[i], sla_hours)]

(***************************************************************************)
(* ELT: extract_311's text dates and the view fact_requests_v              *)
(***************************************************************************)
\* extract_311 (ELT): datetime -> string for SQLite
extract_311_elt(frame) ==
    [i \in 1..Len(frame) |->
        [frame[i] EXCEPT !.created_date = strftime(@),
                         !.closed_date = strftime(@)]]

\* SQL's three-valued logic
SqlEqText(a, b) == IF a = NaN \/ b = NaN THEN "null"
                   ELSE IF a = b THEN "true" ELSE "false"

SqlLeqInt(x, h) == IF x = NULL THEN "null"
                   ELSE IF RealLeqInt(x, h) THEN "true" ELSE "false"

SqlAnd(a, b) == IF a = "false" \/ b = "false" THEN "false"
                ELSE IF a = "null" \/ b = "null" THEN "null"
                ELSE "true"

\* the literal of the view definition
ViewSlaTarget == 72

ViewHours(r) ==
    SqlTimes24(SqlSub(JULIANDAY(r.closed_date), JULIANDAY(r.created_date)))

\* CASE WHEN UPPER(status) = 'COMPLETED' AND (...) * 24 <= 72 THEN 1 ELSE 0 END
ViewSlaMet(r) ==
    IF SqlAnd(SqlEqText(Upper(r.status), COMPLETED),
              SqlLeqInt(ViewHours(r), ViewSlaTarget)) = "true"
    THEN 1 ELSE 0

\* CASE WHEN UPPER(status) = 'COMPLETED' THEN 0 ELSE 1 END
ViewOpenFlag(r) ==
    IF SqlEqText(Upper(r.status), COMPLETED) = "true" THEN 0 ELSE 1

\* SELECT ... FROM stg_requests
fact_requests_v_row(r) ==
    [sr_number |-> r.sr_number,
     status |-> r.status,
     created_date |-> r.created_date,
     closed_date |-> r.closed_date,
     resolution_time_h |-> ViewHours(r),
     sla_target_h |-> ViewSlaTarget,
     sla_met |-> ViewSlaMet(r),
     open_flag |-> ViewOpenFlag(r)]

fact_requests_v_of(table) ==
    [i \in 1..Len(table) |-> fact_requests_v_row(table[i])]

(***************************************************************************)
(* Reference files: extract_acs_and_mapping and its column resolver        *)
(***************************************************************************)
LowerChar(c) ==
    IF \E i \in 1..26 : UpperCase[i] = c
    THEN LowerCase[CHOOSE i \in 1..26 : UpperCase[i] = c]
    ELSE c

Lower(s) == [i \in 1..Len(s) |-> LowerChar(s[i])]

IsSpace(c) == c \in {" ", "\t"}

\* " ".join(s.split()): the words of s, joined by one blank each
RECURSIVE JoinSplit(_, _)
JoinSplit(s, acc) ==
    IF s = <<>>
    THEN IF acc # <<>> /\ acc[Len(acc)] = " "
         THEN SubSeq(acc, 1, Len(acc) - 1) ELSE acc
    ELSE IF IsSpace(Head(s))
         THEN IF acc = <<>> \/ acc[Len(acc)] = " "
              THEN JoinSplit(Tail(s), acc)
              ELSE JoinSplit(Tail(s), Append(acc, " "))
         ELSE JoinSplit(Tail(s), Append(acc, Head(s)))

\* _norm(s) = " ".join(str(s).strip().lower().split())
_norm(s) == JoinSplit(Lower(s), <<>>)

\* the candidates for the ID column, in the order they are probed
IdKeys ==
    << <<"a","r","e","a","_","n","u","m","b","e">>,
       <<"a","r","e","a"," ","n","u","m","b","e">>,
       <<"a","r","e","a","_","n","u","m">>,
       <<"a","r","e","a"," ","n","u","m">>,
       <<"a","r","e","a","_","n","u","m","_","1">>,
       <<"a","r","e","a"," ","n","u","m"," ","1">>,
       <<"c","o","m","m","u","n","i","t","y"," ","a","r","e","a"," ","n","u","m","b","e","r">>,
       <<"c","o","m","m","u","n","i","t","y"," ","a","r","e","a"," ","n","u","m">>,
       <<"c","o","m","m","u","n","i","t","y","_","a","r","e","a","_","n","u","m","b","e","r">> >>

\* the candidates for the name column, in the order they are probed
NameKeys ==
    << <<"c","o","m","m","u","n","i","t","y">>,
       <<"c","o","m","m","u","n","i","t","y"," ","a","r","e","a">>,
       <<"c","o","m","m","u","n","i","t","y","_","a","r","e","a","_","n","a","m","e">>,
       <<"c","o","m","m","u","n","i","t","y"," ","a","r","e","a"," ","n","a","m","e">>,
       <<"n","a","m","e">> >>

\* lookup = {_norm(c): c for c in cols}: a later header replaces an earlier
\* one of the same normal form
LookupHas(headers, key) == \E i \in 1..Len(headers) : _norm(headers[i]) = key

LookupGet(headers, key) ==
    LET last == CHOOSE i \in 1..Len(headers) :
                    /\ _norm(headers[i]) = key
                    /\ \A j \in (i + 1)..Len(headers) : _norm(headers[j]) # key
    IN  headers[last]

\* the first header, in file order, that is any of the keys
FirstHeader(keys, headers) ==
    IF \E i \in 1..Len(headers) : \E k \in 1..Len(keys) : _norm(headers[i]) = keys[k]
    THEN headers[CHOOSE i \in 1..Len(headers) :
                    /\ \E k \in 1..Len(keys) : _norm(headers[i]) = keys[k]
                    /\ \A j \in 1..(i - 1) :
                          \A k \in 1..Len(keys) : _norm(headers[j]) # keys[k]]
    ELSE None

\* for key in keys: if key in lookup: col = lookup[key]; break
FirstMatch(keys, headers) ==
    IF \E k \in 1..Len(keys) : LookupHas(headers, keys[k])
    THEN LookupGet(headers,
                   keys[CHOOSE k \in 1..Len(keys) :
                            /\ LookupHas(headers, keys[k])
                            /\ \A j \in 1..(k - 1) : ~LookupHas(headers, keys[j])])
    ELSE None

Pending == [kind |-> "pending"]

\* if not id_col and not name_col
Unresolved_both(id_col, name_col) == id_col = None /\ name_col = None

\* if not id_col or not name_col
Unresolved(id_col, name_col) == id_col = None \/ name_col = None

\* str.strip()
RECURSIVE LStrip(_)
LStrip(s) == IF s # <<>> /\ IsSpace(Head(s)) THEN LStrip(Tail(s)) ELSE s

RECURSIVE RStrip(_)
RStrip(s) == IF s # <<>> /\ IsSpace(s[Len(s)])
             THEN RStrip(SubSeq(s, 1, Len(s) - 1)) ELSE s

Strip(s) == LStrip(RStrip(s))

\* .astype(str).str.strip().str.upper()
NormName(s) == Upper(Strip(s))

IsDigits(s) == s # <<>> /\ \A i \in 1..Len(s) : \E d \in 1..10 : Digits[d] = s[i]

\* pd.to_numeric(cell, errors="coerce"): the number, or <NA>
to_numeric(s) == IF IsDigits(s) THEN int(s) ELSE NULL

ColumnIndex(headers, h) == CHOOSE i \in 1..Len(headers) : headers[i] = h

\* acs[[...]].rename(...), and its name column normalised
AcsSmall(acsrows) ==
    [i \in 1..Len(acsrows) |->
        [community_area_int |-> acsrows[i].number,
         community_area_name |-> NormName(acsrows[i].name),
         per_capita_income |-> acsrows[i].income,
         hardship_index |-> acsrows[i].hardship]]

\* mapping[[id_col, name_col]].rename(...), normalised
DfMap(file, id_col, name_col) ==
    [i \in 1..Len(file.rows) |->
        [community_area_int |->
            to_numeric(file.rows[i][ColumnIndex(file.columns, id_col)]),
         community_area_name |->
            NormName(file.rows[i][ColumnIndex(file.columns, name_col)])]]

\* a label of the frame's columns; mapping[[id_col, name_col]] raises KeyError
\* for any other
HasColumn(headers, h) == \E i \in 1..Len(headers) : headers[i] = h

\* extract_acs_and_mapping(): raise ValueError naming the columns found, or
\* return (acs_small, df_map)
extract_acs_and_mapping(acsrows, file) ==
    LET id_col == FirstMatch(IdKeys, file.columns)
        name_col == FirstMatch(NameKeys, file.columns)
    IN  IF Unresolved(id_col, name_col)
        THEN [kind |-> "raise", type |-> "ValueError",
              message |-> file.columns]
        ELSE IF ~HasColumn(file.columns, id_col) \/ ~HasColumn(file.columns, name_col)
        THEN [kind |-> "raise", type |-> "KeyError",
              message |-> <<id_col, name_col>>]
        ELSE [kind |-> "return",
              id_col |-> id_col,
              name_col |-> name_col,
              acs_small |-> AcsSmall(acsrows),
              df_map |-> DfMap(file, id_col, name_col)]

(***************************************************************************)
(* The store: tables of the ETL warehouse, staging and views of the ELT    *)
(***************************************************************************)
\* CREATE TABLE fact_requests (sr_number TEXT PRIMARY KEY, ...):
\* INSERT OR REPLACE removes the row of the same key, if any, and adds the
\* new row; a NULL key conflicts with no row
InsertOrReplaceFact(table, row) ==
    IF row.sr_number = NaN THEN Append(table, row)
    ELSE Append(SelectSeq(table, LAMBDA t : t.sr_number # row.sr_number), row)

\* load_fact: datetime -> ISO strings
FactRecord(r) ==
    [r EXCEPT !.created_date = strftime(@), !.closed_date = strftime(@)]

RECURSIVE ExecuteManyFact(_, _)
ExecuteManyFact(table, rows) ==
    IF rows = <<>> THEN table
    ELSE ExecuteManyFact(InsertOrReplaceFact(table, Head(rows)), Tail(rows))

\* load_fact(conn, df): the table after the call
load_fact(table, frame) ==
    ExecuteManyFact(table, [i \in 1..Len(frame) |-> FactRecord(frame[i])])

\* the rows of right that the join keys of l match
Matches(l, right) ==
    SelectSeq(right, LAMBDA a :
        /\ l.community_area_int = a.community_area_int
        /\ l.community_area_name = a.community_area_name)

Joined(l, a) ==
    [community_area_int |-> l.community_area_int,
     community_area_name |-> l.community_area_name,
     per_capita_income |-> a.per_capita_income,
     hardship_index |-> a.hardship_index]

Unmatched(l) ==
    [community_area_int |-> l.community_area_int,
     community_area_name |-> l.community_area_name,
     per_capita_income |-> NULL,
     hardship_index |-> NULL]

\* the rows a left join gives for one left row, given its matches
JoinRows(l, ms) ==
    IF ms = <<>> THEN <<Unmatched(l)>>
    ELSE [j \in 1..Len(ms) |-> Joined(l, ms[j])]

\* df_map.merge(acs_small, on=[...], how="left")
RECURSIVE merge_left(_, _)
merge_left(left, right) ==
    IF left = <<>> THEN <<>>
    ELSE JoinRows(Head(left), Matches(Head(left), right))
         \o merge_left(Tail(left), right)

\* CREATE TABLE dim_area_extended (community_area_int INTEGER PRIMARY KEY,
\* ...): INSERT OR REPLACE
InsertOrReplaceDim(table, row) ==
    Append(SelectSeq(table, LAMBDA t :
               t.community_area_int # row.community_area_int), row)

RECURSIVE ExecuteManyDim(_, _)
ExecuteManyDim(table, rows) ==
    IF rows = <<>> THEN table
    ELSE ExecuteManyDim(InsertOrReplaceDim(table, Head(rows)), Tail(rows))

\* load_dim_area_extended(conn, acs_small, df_map): the table after the call
load_dim_area_extended(table, acs_small, df_map) ==
    ExecuteManyDim(table, merge_left(df_map, acs_small))

\* the rows of a that the ON clause of the view accepts for m
ViewMatches(m, right) ==
    SelectSeq(right, LAMBDA a :
        /\ m.community_area_int = a.community_area_int
        /\ SqlEqText(Upper(m.community_area_name),
                     Upper(a.community_area_name)) = "true")

\* SELECT ... FROM stg_area_map m LEFT JOIN stg_demographics a ON ...
RECURSIVE dim_area_extended_v_of(_, _)
dim_area_extended_v_of(area_map, demographics) ==
    IF area_map = <<>> THEN <<>>
    ELSE JoinRows(Head(area_map), ViewMatches(Head(area_map), demographics))
         \o dim_area_extended_v_of(Tail(area_map), demographics)

(***************************************************************************)
(* Inputs                                                                  *)
(***************************************************************************)
NoExc == [type |-> "none"]
NoFile == [columns |-> <<>>, rows |-> <<>>]

SR1 == <<"S","R","1">>
SR2 == <<"S","R","2">>
Completed == <<"C","o","m","p","l","e","t","e","d">>
Open == <<"O","p","e","n">>

EnvPool == { None, <<"4","8">>, <<"7","2">> }

Hdr_AREA_NUMBE == <<"A","R","E","A","_","N","U","M","B","E">>
Hdr_COMMUNITY == <<"C","O","M","M","U","N","I","T","Y">>
Hdr_SHAPE_AREA == <<"S","H","A","P","E","_","A","R","E","A">>
Hdr_Area__Num == <<" ","A","r","e","a"," "," ","N","u","m"," ">>
Hdr_AREA_NUM_1 == <<"A","R","E","A","_","N","U","M","_","1">>
Hdr_community_lc == <<"c","o","m","m","u","n","i","t","y"," ">>
Hdr_Name == <<"N","a","m","e">>
Hdr_Community_Area == <<"C","o","m","m","u","n","i","t","y","\t","A","r","e","a">>
Hdr_the_geom == <<"t","h","e","_","g","e","o","m">>

HeaderPool ==
    { Hdr_AREA_NUMBE,
      Hdr_COMMUNITY,
      Hdr_SHAPE_AREA,
      Hdr_Area__Num,
      Hdr_AREA_NUM_1,
      Hdr_community_lc,
      Hdr_Name,
      Hdr_Community_Area,
      Hdr_the_geom }

GoodColumns == <<Hdr_AREA_NUMBE, Hdr_COMMUNITY, Hdr_SHAPE_AREA>>
BadColumns == <<Hdr_the_geom, Hdr_SHAPE_AREA>>

Loop == <<"L","o","o","p"," ">>
LOOP == <<"L","O","O","P">>
OHARE == <<"O","H","A","R","E">>

\* a boundaries row: the cells of its columns, in order
ExampleCells(n) ==
    [i \in 1..n |-> IF i % 2 = 1 THEN <<"3","2">> ELSE Loop]

ExampleAcs ==
    << [number |-> 32, name |-> LOOP, income |-> Num(65526), hardship |-> Num(3)],
       [number |-> 76, name |-> OHARE, income |-> Num(25828), hardship |-> Num(24)] >>

Logged(msg) == \E i \in 1..Len(log) : log[i] = msg

CtlIdle == pc = "idle" /\ exc = NoExc /\ calls = <<>> /\ log = <<>>

StoreEmpty ==
    /\ schema = {}
    /\ fact_requests = <<>> /\ dim_area_extended = <<>>
    /\ stg_requests = <<>> /\ stg_demographics = <<>> /\ stg_area_map = <<>>

(***************************************************************************)
(* SpecKPI: the KPI derivation of both pipelines over one fetched feed     *)
(***************************************************************************)
MaxRows == 1

StatusPool == { COMPLETED, Completed, Open, NaN }

CreatedPool == { Timestamp(0, 0), Timestamp(0, 1), NaT }

ClosedPool ==
    { NaT, Timestamp(0, 0), Timestamp(0, 3600), Timestamp(2, 0),
      Timestamp(2, 43200), Timestamp(3, 0), Timestamp(3, 1) }

KpiRows == [sr_number : {SR1}, status : StatusPool,
            created_date : CreatedPool, closed_date : ClosedPool]

KpiFeeds == UNION { [1..n -> KpiRows] : n \in 0..MaxRows }

KpiInit ==
    /\ environ \in EnvPool
    /\ mode = "ETL+ELT"
    /\ feed \in KpiFeeds
    /\ df = feed
    /\ mapping = NoFile /\ acs = <<>> /\ extracted = Pending
    /\ tf = <<>>
    /\ CtlIdle
    /\ StoreEmpty

\* ETL run(): tf = transform_311(df, SLA_HOURS)
KpiTransform ==
    /\ ~Logged("Transforming 311 data in Python (ETL mode)")
    /\ tf' = transform_311(df, SLA_HOURS)
    /\ log' = Append(log, "Transforming 311 data in Python (ETL mode)")
    /\ UNCHANGED <<cfgVars, ctlVars, inVars, df, extracted, storeVars>>

\* ELT run(): df = extract_311(...); stage(df, "stg_requests", conn)
KpiStage ==
    /\ ~Logged("Staging complete: stg_requests replaced")
    /\ stg_requests' = extract_311_elt(df)
    /\ schema' = schema \cup {"stg_requests"}
    /\ log' = Append(log, "Staging complete: stg_requests replaced")
    /\ UNCHANGED <<cfgVars, ctlVars, inVars, memVars, etlStore,
                   stg_demographics, stg_area_map>>

\* ELT run(): ensure_schema_and_views(conn), after the staging
KpiViews ==
    /\ "stg_requests" \in schema
    /\ "fact_requests_v" \notin schema
    /\ schema' = schema \cup {"fact_requests_v", "dim_area_extended_v"}
    /\ log' = Append(log, "Views created: fact_requests_v, dim_area_extended_v")
    /\ UNCHANGED <<cfgVars, ctlVars, inVars, memVars, etlStore, eltStore>>

KpiNext == KpiTransform \/ KpiStage \/ KpiViews

SpecKPI == KpiInit /\ [][KpiNext]_vars

(***************************************************************************)
(* SpecResolver: extract_acs_and_mapping over boundaries files of any      *)
(* headers                                                                 *)
(***************************************************************************)
MaxCols == 3

\* pandas gives every column of a file a name of its own
HeaderLists ==
    { h \in UNION { [1..n -> HeaderPool] : n \in 0..MaxCols } :
        \A i, j \in 1..Len(h) : i # j => h[i] # h[j] }

ResInit ==
    /\ environ = None
    /\ mode = "ETL+ELT"
    /\ feed = <<>> /\ df = <<>> /\ tf = <<>>
    /\ \E h \in HeaderLists :
          mapping = [columns |-> h, rows |-> <<ExampleCells(Len(h))>>]
    /\ acs = ExampleAcs
    /\ extracted = Pending
    /\ CtlIdle
    /\ StoreEmpty

\* acs_small, df_map = extract_acs_and_mapping()
ResExtract ==
    /\ extracted = Pending
    /\ extracted' = extract_acs_and_mapping(acs, mapping)
    /\ log' = Append(log, "Mapping rows")
    /\ UNCHANGED <<cfgVars, ctlVars, inVars, df, tf, storeVars>>

ResNext == ResExtract

SpecResolver == ResInit /\ [][ResNext]_vars

(***************************************************************************)
(* SpecLoad: the Warehouse Loader of the ETL pipeline, called repeatedly   *)
(* with one transformed frame                                              *)
(***************************************************************************)
MaxLoadRows == 2
MaxCalls == 4

LoadRows == [sr_number : {SR1, SR2, NaN}, status : {COMPLETED, Open},
             created_date : {Timestamp(0, 0)},
             closed_date : {Timestamp(0, 3600)}]

LoadFeeds == UNION { [1..n -> LoadRows] : n \in 0..MaxLoadRows }

LoadInit ==
    /\ environ = None
    /\ mode = "ETL"
    /\ feed \in LoadFeeds
    /\ df = feed
    /\ tf = transform_311(feed, SLA_HOURS)
    /\ mapping = NoFile /\ acs = <<>> /\ extracted = Pending
    /\ CtlIdle
    /\ StoreEmpty

\* ensure_schema(conn): both tables dropped and created
LoadEnsureSchema ==
    /\ Len(log) < MaxCalls
    /\ schema' = {"fact_requests", "dim_area_extended"}
    /\ fact_requests' = <<>>
    /\ dim_area_extended' = <<>>
    /\ log' = Append(log, "Warehouse schema ensured")
    /\ UNCHANGED <<cfgVars, ctlVars, inVars, memVars, eltStore>>

\* load_fact(conn, tf)
LoadFact ==
    /\ Len(log) < MaxCalls
    /\ "fact_requests" \in schema
    /\ fact_requests' = load_fact(fact_requests, tf)
    /\ log' = Append(log, "Loaded rows into fact_requests")
    /\ UNCHANGED <<cfgVars, ctlVars, inVars, memVars, schema,
                   dim_area_extended, eltStore>>

LoadNext == LoadEnsureSchema \/ LoadFact

SpecLoad == LoadInit /\ [][LoadNext]_vars

(***************************************************************************)
(* SpecDim: the area dimension of both pipelines over one pair of          *)
(* reference files                                                         *)
(***************************************************************************)
MaxAreaRows == 2

MapRowPool == { <<c, n>> : c \in { <<"3","2">>, <<"7","6">> },
                           n \in { Loop, OHARE } }

AcsRowPool == [number : {32, 76}, name : {LOOP, OHARE},
               income : {Num(65526), Num(25828)}, hardship : {Num(3)}]

\* the boundaries file has one row per community area
MapRowLists ==
    { r \in UNION { [1..n -> MapRowPool] : n \in 0..MaxAreaRows } :
        \A i, j \in 1..Len(r) : i # j => r[i][1] # r[j][1] }

AcsRowLists == UNION { [1..n -> AcsRowPool] : n \in 0..MaxAreaRows }

DimInit ==
    /\ environ = None
    /\ mode = "ETL+ELT"
    /\ feed = <<>> /\ df = <<>> /\ tf = <<>>
    /\ \E r \in MapRowLists :
          mapping = [columns |-> <<Hdr_AREA_NUMBE, Hdr_COMMUNITY>>, rows |-> r]
    /\ acs \in AcsRowLists
    /\ extracted = extract_acs_and_mapping(acs, mapping)
    /\ CtlIdle
    /\ StoreEmpty

\* ETL run(): ensure_schema(conn)
DimEnsureSchema ==
    /\ "dim_area_extended" \notin schema
    /\ schema' = schema \cup {"fact_requests", "dim_area_extended"}
    /\ fact_requests' = <<>>
    /\ dim_area_extended' = <<>>
    /\ log' = Append(log, "Warehouse schema ensured")
    /\ UNCHANGED <<cfgVars, ctlVars, inVars, memVars, eltStore>>

\* ETL run(): load_dim_area_extended(conn, acs_small, df_map)
DimLoad ==
    /\ "dim_area_extended" \in schema
    /\ ~Logged("Loaded rows into dim_area_extended")
    /\ dim_area_extended' =
          load_dim_area_extended(dim_area_extended,
                                 extracted.acs_small, extracted.df_map)
    /\ log' = Append(log, "Loaded rows into dim_area_extended")
    /\ UNCHANGED <<cfgVars, ctlVars, inVars, memVars, schema, fact_requests,
                   eltStore>>

\* ELT run(): stage(acs_small, "stg_demographics", conn);
\* stage(df_map, "stg_area_map", conn)
DimStage ==
    /\ "stg_area_map" \notin schema
    /\ stg_demographics' = extracted.acs_small
    /\ stg_area_map' = extracted.df_map
    /\ schema' = schema \cup {"stg_demographics", "stg_area_map"}
    /\ log' = Append(log, "Staging complete: stg_area_map replaced")
    /\ UNCHANGED <<cfgVars, ctlVars, inVars, memVars, etlStore, stg_requests>>

\* ELT run(): ensure_schema_and_views(conn), after the staging
DimViews ==
    /\ "stg_area_map" \in schema
    /\ "dim_area_extended_v" \notin schema
    /\ schema' = schema \cup {"fact_requests_v", "dim_area_extended_v"}
    /\ log' = Append(log, "Views created: fact_requests_v, dim_area_extended_v")
    /\ UNCHANGED <<cfgVars, ctlVars, inVars, memVars, etlStore, eltStore>>

DimNext == DimEnsureSchema \/ DimLoad \/ DimStage \/ DimViews

SpecDim == DimInit /\ [][DimNext]_vars

(***************************************************************************)
(* Spec: run(), one statement at a time, in either mode                    *)
(***************************************************************************)
RunFeeds ==
    { <<>>,
      << [sr_number |-> SR1, status |-> Completed,
          created_date |-> Timestamp(0, 1), closed_date |-> Timestamp(3, 1)],
         [sr_number |-> SR2, status |-> Open,
          created_date |-> Timestamp(0, 0), closed_date |-> NaT] >> }

RunMappings ==
    { [columns |-> GoodColumns, rows |-> <<ExampleCells(3)>>],
      [columns |-> BadColumns, rows |-> <<ExampleCells(2)>>] }

\* the statements of run() in pipeline_etl.py, in order; those from
\* ensure_schema to success stand in the try block
EtlOrder_healthFirst ==
    << "extract_311", "extract_acs_and_mapping", "transform_311", "connect",
       "ensure_schema", "health_check", "load_fact", "load_dim_area_extended",
       "success", "finally" >>

EtlOrder ==
    << "extract_311", "extract_acs_and_mapping", "transform_311", "connect",
       "ensure_schema", "load_fact", "load_dim_area_extended", "health_check",
       "success", "finally" >>

\* the statements of run() in pipeline_elt.py, in order; those from
\* stage_requests to success stand in the try block
EltOrder ==
    << "extract_311", "extract_acs_and_mapping", "connect",
       "stage_requests", "stage_demographics", "stage_area_map",
       "ensure_schema_and_views", "health_check", "success", "finally" >>

Order == IF mode = "ETL" THEN EtlOrder ELSE EltOrder

Position(p) == CHOOSE i \in 1..Len(Order) : Order[i] = p

\* the statement after p
NextPc(p) == Order[Position(p) + 1]

\* whether statement p stands in the try block of run()
InTry(p) == Position(p) > Position("connect") /\ Position(p) < Len(Order)

\* p raises: the except clause takes it if p stands in the try block,
\* otherwise it leaves run() at once
Raise(type) ==
    /\ exc' = [type |-> type, raised_in |-> pc]
    /\ pc' = IF InTry(pc) THEN "except" ELSE "raised"

\* finally: conn.close(), only when no exception is in flight
Finally_onSuccess(c, e) == IF e = NoExc THEN Append(c, "close") ELSE c

\* finally: conn.close()
Finally(c, e) == Append(c, "close")

Init ==
    /\ environ \in EnvPool
    /\ mode \in {"ETL", "ELT"}
    /\ feed \in RunFeeds
    /\ mapping \in RunMappings
    /\ acs = ExampleAcs
    /\ df = <<>> /\ tf = <<>> /\ extracted = Pending
    /\ pc = "extract_311" /\ exc = NoExc /\ calls = <<>>
    /\ log = <<"Pipeline start">>
    /\ StoreEmpty

\* df = extract_311(ROW_LIMIT)
RunExtract311 ==
    /\ pc = "extract_311"
    /\ \/ /\ df' = IF mode = "ETL" THEN feed ELSE extract_311_elt(feed)
          /\ log' = Append(log, "Fetched rows (311)")
          /\ pc' = NextPc(pc)
          /\ UNCHANGED exc
       \/ /\ Raise("URLError")
          /\ UNCHANGED <<df, log>>
    /\ UNCHANGED <<cfgVars, calls, inVars, extracted, tf, storeVars>>

\* acs_small, df_map = extract_acs_and_mapping()
RunExtractAcs ==
    /\ pc = "extract_acs_and_mapping"
    /\ \/ /\ extracted' = extract_acs_and_mapping(acs, mapping)
          /\ log' = Append(log, "Mapping rows")
          /\ IF extracted'.kind = "raise"
             THEN Raise(extracted'.type)
             ELSE pc' = NextPc(pc) /\ UNCHANGED exc
       \/ /\ Raise("FileNotFoundError")
          /\ UNCHANGED <<extracted, log>>
    /\ UNCHANGED <<cfgVars, calls, inVars, df, tf, storeVars>>

\* tf = transform_311(df, SLA_HOURS)
RunTransform ==
    /\ pc = "transform_311"
    /\ \/ /\ tf' = transform_311(df, SLA_HOURS)
          /\ log' = Append(log, "Transforming 311 data in Python (ETL mode)")
          /\ pc' = NextPc(pc)
          /\ UNCHANGED exc
       \/ /\ Raise("KeyError")
          /\ UNCHANGED <<tf, log>>
    /\ UNCHANGED <<cfgVars, calls, inVars, df, extracted, storeVars>>

\* conn = sqlite3.connect(DB_PATH)
RunConnect ==
    /\ pc = "connect"
    /\ \/ /\ calls' = Append(calls, "connect")
          /\ pc' = NextPc(pc)
          /\ UNCHANGED exc
       \/ /\ Raise("OperationalError")
          /\ UNCHANGED calls
    /\ UNCHANGED <<cfgVars, log, inVars, memVars, storeVars>>

\* ensure_schema(conn)
RunEnsureSchema ==
    /\ pc = "ensure_schema"
    /\ calls' = Append(calls, pc)
    /\ \/ /\ schema' = {"fact_requests", "dim_area_extended"}
          /\ fact_requests' = <<>>
          /\ dim_area_extended' = <<>>
          /\ log' = Append(log, "Warehouse schema ensured")
          /\ pc' = NextPc(pc)
          /\ UNCHANGED exc
       \/ /\ Raise("OperationalError")
          /\ UNCHANGED <<schema, etlStore, log>>
    /\ UNCHANGED <<cfgVars, inVars, memVars, eltStore>>

\* load_fact(conn, tf)
RunLoadFact ==
    /\ pc = "load_fact"
    /\ calls' = Append(calls, pc)
    /\ \/ /\ fact_requests' = load_fact(fact_requests, tf)
          /\ log' = Append(log, "Loaded rows into fact_requests")
          /\ pc' = NextPc(pc)
          /\ UNCHANGED exc
       \/ /\ Raise("OperationalError")
          /\ UNCHANGED <<fact_requests, log>>
    /\ UNCHANGED <<cfgVars, inVars, memVars, schema, dim_area_extended,
                   eltStore>>

\* load_dim_area_extended(conn, acs_small, df_map)
RunLoadDim ==
    /\ pc = "load_dim_area_extended"
    /\ calls' = Append(calls, pc)
    /\ \/ /\ dim_area_extended' =
                load_dim_area_extended(dim_area_extended,
                                       extracted.acs_small, extracted.df_map)
          /\ log' = Append(log, "Loaded rows into dim_area_extended")
          /\ pc' = NextPc(pc)
          /\ UNCHANGED exc
       \/ /\ Raise("OperationalError")
          /\ UNCHANGED <<dim_area_extended, log>>
    /\ UNCHANGED <<cfgVars, inVars, memVars, schema, fact_requests, eltStore>>

\* stage(df, "stg_requests", conn); stage(acs_small, "stg_demographics",
\* conn); stage(df_map, "stg_area_map", conn)
RunStage ==
    /\ pc \in {"stage_requests", "stage_demographics", "stage_area_map"}
    /\ calls' = Append(calls, pc)
    /\ \/ /\ stg_requests' =
                IF pc = "stage_requests" THEN df ELSE stg_requests
          /\ stg_demographics' =
                IF pc = "stage_demographics" THEN extracted.acs_small
                ELSE stg_demographics
          /\ stg_area_map' =
                IF pc = "stage_area_map" THEN extracted.df_map
                ELSE stg_area_map
          /\ schema' = schema \cup
                { IF pc = "stage_requests" THEN "stg_requests"
                  ELSE IF pc = "stage_demographics" THEN "stg_demographics"
                  ELSE "stg_area_map" }
          /\ log' = Append(log, "Staging complete")
          /\ pc' = NextPc(pc)
          /\ UNCHANGED exc
       \/ /\ Raise("OperationalError")
          /\ UNCHANGED <<schema, eltStore, log>>
    /\ UNCHANGED <<cfgVars, inVars, memVars, etlStore>>

\* ensure_schema_and_views(conn)
RunEnsureViews ==
    /\ pc = "ensure_schema_and_views"
    /\ calls' = Append(calls, pc)
    /\ \/ /\ schema' = schema \cup {"fact_requests_v", "dim_area_extended_v"}
          /\ log' = Append(log, "Views created: fact_requests_v, dim_area_extended_v")
          /\ pc' = NextPc(pc)
          /\ UNCHANGED exc
       \/ /\ Raise("OperationalError")
          /\ UNCHANGED <<schema, log>>
    /\ UNCHANGED <<cfgVars, inVars, memVars, etlStore, eltStore>>

\* health_check(conn)
RunHealthCheck ==
    /\ pc = "health_check"
    /\ calls' = Append(calls, pc)
    /\ \/ /\ log' = Append(log, "HealthCheck")
          /\ pc' = NextPc(pc)
          /\ UNCHANGED exc
       \/ /\ Raise("OperationalError")
          /\ UNCHANGED log
    /\ UNCHANGED <<cfgVars, inVars, memVars, storeVars>>

\* logger.info("Pipeline success (...)")
RunSuccess ==
    /\ pc = "success"
    /\ log' = Append(log, "Pipeline success")
    /\ pc' = NextPc(pc)
    /\ UNCHANGED <<cfgVars, exc, calls, inVars, memVars, storeVars>>

\* except Exception as e: logger.exception(...); raise
RunExcept ==
    /\ pc = "except"
    /\ log' = Append(log, "Pipeline failed")
    /\ pc' = "finally"
    /\ UNCHANGED <<cfgVars, exc, calls, inVars, memVars, storeVars>>

\* finally: conn.close(); logger.info("Pipeline end ..."); then run()
\* returns, or the exception in flight leaves it
RunFinally ==
    /\ pc = "finally"
    /\ calls' = Finally(calls, exc)
    /\ log' = Append(log, "Pipeline end")
    /\ pc' = IF exc = NoExc THEN "returned" ELSE "raised"
    /\ UNCHANGED <<cfgVars, exc, inVars, memVars, storeVars>>

Next ==
    \/ RunExtract311 \/ RunExtractAcs \/ RunTransform \/ RunConnect
    \/ RunEnsureSchema \/ RunLoadFact \/ RunLoadDim
    \/ RunStage \/ RunEnsureViews
    \/ RunHealthCheck \/ RunSuccess \/ RunExcept \/ RunFinally

Spec == Init /\ [][Next]_vars

(***************************************************************************)
(* Properties of the KPI derivation (SpecKPI)                              *)
(***************************************************************************)
\* SELECT * FROM fact_requests_v
fact_requests_v == fact_requests_v_of(stg_requests)

Transformed == Logged("Transforming 311 data in Python (ETL mode)")
ViewExists == "fact_requests_v" \in schema

\* the seconds between the created and the closed timestamp of a feed row
Elapsed(r) == (r.closed_date.day - r.created_date.day) * 86400
              + (r.closed_date.sec - r.created_date.sec)

Timed(r) == r.created_date # NaT /\ r.closed_date # NaT

\* C1: for every request row and the same SLA target, the ETL transform and
\* the ELT view yield the same resolution_time_h, the same sla_met and the
\* same open_flag
C1_EtlEltSameKpis ==
    (Transformed /\ ViewExists) =>
        \A i \in 1..Len(feed) :
            tf[i].sla_target_h = fact_requests_v[i].sla_target_h =>
                /\ RealEq(tf[i].resolution_time_h,
                          fact_requests_v[i].resolution_time_h)
                /\ tf[i].sla_met = fact_requests_v[i].sla_met
                /\ tf[i].open_flag = fact_requests_v[i].open_flag

\* what C2 says of the fact row d derived from the feed row r
SlaRule(r, d) ==
    /\ d.sla_met = IF /\ Upper(d.status) = COMPLETED
                      /\ d.resolution_time_h # NULL
                      /\ RealLeqInt(d.resolution_time_h, d.sla_target_h)
                   THEN 1 ELSE 0
    /\ r.closed_date = NaT => (d.resolution_time_h = NULL /\ d.sla_met = 0)
    /\ (d.sla_target_h = 72 /\ Upper(r.status) = COMPLETED /\ Timed(r)) =>
           /\ Elapsed(r) = 72 * 3600 => d.sla_met = 1
           /\ Elapsed(r) > 72 * 3600 => d.sla_met = 0

\* C2: in both modes sla_met is 1 exactly when upper(status) = 'COMPLETED'
\* and resolution_time_h <= sla_target_h, and 0 otherwise; a row without
\* closed_date has a null resolution_time_h and sla_met = 0; with a target of
\* 72 a completed request resolved in exactly 72 hours has sla_met = 1 and
\* one resolved in more than 72 hours has sla_met = 0
C2_SlaMetRule ==
    /\ Transformed => \A i \in 1..Len(feed) : SlaRule(feed[i], tf[i])
    /\ ViewExists =>
          \A i \in 1..Len(feed) : SlaRule(feed[i], fact_requests_v[i])

\* both modes have derived a completed request that was created one second
\* past midnight and resolved in exactly 72 hours, against a target of 72
C2_Witness ==
    /\ Transformed /\ ViewExists
    /\ \E i \in 1..Len(feed) :
        /\ Timed(feed[i]) /\ feed[i].created_date.sec = 1
        /\ Elapsed(feed[i]) = 72 * 3600
        /\ Upper(feed[i].status) = COMPLETED
        /\ tf[i].sla_target_h = 72 /\ tf[i].sla_met = 1
        /\ fact_requests_v[i].sla_met = 1

\* C3: in both modes the sla_target_h stored on every fact row of a run is
\* the SLA hours configured for the run through the environment (72 when not
\* configured), the threshold of sla_met
C3_ConfiguredSlaTarget ==
    /\ Transformed => \A i \in 1..Len(feed) : tf[i].sla_target_h = SLA_HOURS
    /\ ViewExists =>
          \A i \in 1..Len(feed) : fact_requests_v[i].sla_target_h = SLA_HOURS

(***************************************************************************)
(* Properties of the Column Resolver (SpecResolver)                        *)
(***************************************************************************)
Matched(keys, k) ==
    \E i \in 1..Len(mapping.columns) : _norm(mapping.columns[i]) = keys[k]

\* the earliest key of keys that is the normal form of some header
EarliestKey(keys) ==
    keys[CHOOSE k \in 1..Len(keys) :
            Matched(keys, k) /\ \A j \in 1..(k - 1) : ~Matched(keys, j)]

IsHeader(h) == \E i \in 1..Len(mapping.columns) : mapping.columns[i] = h

\* C4: the resolved code column is an original header whose normal form is
\* the earliest code alias that any header matches, and likewise the name
\* column, whatever the order of the headers; AREA_NUMBE, COMMUNITY,
\* SHAPE_AREA resolve to AREA_NUMBE and COMMUNITY
C4_FirstAliasWins ==
    extracted.kind = "return" =>
        /\ IsHeader(extracted.id_col)
        /\ _norm(extracted.id_col) = EarliestKey(IdKeys)
        /\ IsHeader(extracted.name_col)
        /\ _norm(extracted.name_col) = EarliestKey(NameKeys)
        /\ mapping.columns = GoodColumns =>
              /\ extracted.id_col = Hdr_AREA_NUMBE
              /\ extracted.name_col = Hdr_COMMUNITY

\* a header of a later code alias stands first in the file, before the
\* header of the earliest alias, which the resolver returned
C4_Witness ==
    /\ extracted.kind = "return"
    /\ Len(mapping.columns) >= 2
    /\ mapping.columns[1] = Hdr_AREA_NUM_1
    /\ extracted.id_col = Hdr_AREA_NUMBE

NoCodeAlias == \A k \in 1..Len(IdKeys) : ~Matched(IdKeys, k)
NoNameAlias == \A k \in 1..Len(NameKeys) : ~Matched(NameKeys, k)

\* what C5 says, for an error of the given type
ResolverFailure(type) ==
    extracted # Pending =>
        /\ (NoCodeAlias \/ NoNameAlias) <=> extracted.kind = "raise"
        /\ extracted.kind = "raise" =>
              /\ extracted.type = type
              /\ extracted.message = mapping.columns
              /\ "df_map" \notin DOMAIN extracted

RECURSIVE LoadsSince(_)
LoadsSince(l) ==
    IF l = <<>> \/ l[Len(l)] = "Warehouse schema ensured" THEN 0
    ELSE LoadsSince(SubSeq(l, 1, Len(l) - 1)) + 1

RowsOf(table, id) == { j \in 1..Len(table) : table[j].sr_number = id }

IsLastOf(i) == \A j \in (i + 1)..Len(tf) : tf[j].sr_number # tf[i].sr_number

\* C6: loading the same input twice, with or without ensure_schema in
\* between, leaves the row count and content of loading it once; after any
\* load there is one row per distinct request identifier, the last one of
\* that identifier in input order
C6_LoadIdempotent ==
    LoadsSince(log) >= 1 =>
        /\ fact_requests = load_fact(<<>>, tf)
        /\ \A i \in 1..Len(tf) :
              tf[i].sr_number # NaN =>
                  Cardinality(RowsOf(fact_requests, tf[i].sr_number)) = 1
        /\ \A i \in 1..Len(tf) :
              (tf[i].sr_number # NaN /\ IsLastOf(i)) =>
                  \E j \in 1..Len(fact_requests) :
                      fact_requests[j] = FactRecord(tf[i])

\* SELECT * FROM dim_area_extended_v
dim_area_extended_v == dim_area_extended_v_of(stg_area_map, stg_demographics)

AreaMap == extracted.df_map
Demographics == extracted.acs_small

HasDemographics(m) ==
    \E k \in 1..Len(Demographics) :
        /\ Demographics[k].community_area_int = m.community_area_int
        /\ Demographics[k].community_area_name = Upper(m.community_area_name)

\* what C7 says of the rows of the dimension
DimRule(rows) ==
    /\ \A i \in 1..Len(AreaMap) :
          Cardinality({ j \in 1..Len(rows) :
              rows[j].community_area_int = AreaMap[i].community_area_int }) = 1
    /\ \A j \in 1..Len(rows) :
          \E i \in 1..Len(AreaMap) :
              /\ rows[j].community_area_int = AreaMap[i].community_area_int
              /\ ~HasDemographics(AreaMap[i]) =>
                    /\ rows[j].per_capita_income = NULL
                    /\ rows[j].hardship_index = NULL

\* C7: dim_area_extended holds exactly one row per area code of AreaMap: an
\* area without a match in Demographics appears with null income and
\* hardship, a Demographics row without a match contributes no row, and no
\* area is dropped or duplicated by the join
C7_OneRowPerArea ==
    /\ Logged("Loaded rows into dim_area_extended") =>
          DimRule(dim_area_extended)
    /\ "dim_area_extended_v" \in schema => DimRule(dim_area_extended_v)

(***************************************************************************)
(* Properties of run() (Spec)                                              *)
(***************************************************************************)
GuardedSteps ==
    { "transform_311", "stage_requests", "stage_demographics",
      "stage_area_map", "ensure_schema", "load_fact",
      "load_dim_area_extended", "ensure_schema_and_views", "health_check" }

\* C8: in both modes an exception raised during a stage, transform,
\* load/build-schema or healthcheck step is logged by the orchestrator and
\* re-raised to the caller, never swallowed, and 'Pipeline success' is never
\* logged in a run in which a step failed
C8_FailureLoggedAndReraised ==
    /\ exc # NoExc => (pc # "returned" /\ ~Logged("Pipeline success"))
    /\ (pc = "raised" /\ exc.raised_in \in GuardedSteps) =>
          Logged("Pipeline failed")

Count(s, x) == Cardinality({ i \in 1..Len(s) : s[i] = x })

\* C9: a run opens at most one connection; on every exit of run() after the
\* connection was opened it has been closed exactly once; and no store
\* operation is issued after the close
C9_ConnectionLifetime ==
    /\ Count(calls, "connect") <= 1
    /\ calls # <<>> => calls[1] = "connect"
    /\ \A i \in 1..Len(calls) : calls[i] = "close" => i = Len(calls)
    /\ (pc \in {"returned", "raised"} /\ Count(calls, "connect") = 1) =>
          Count(calls, "close") = 1

\* load_fact failed, and run() has left with the connection closed
C9_Witness ==
    /\ pc = "raised"
    /\ exc.raised_in = "load_fact"
    /\ calls = <<"connect", "ensure_schema", "load_fact", "close">>

\* the step of the run state machine that statement p belongs to, in mode m
\* with e in flight; connect opens the step of the statement after it
PhaseOf(m, p, e) ==
    CASE p \in {"extract_311", "extract_acs_and_mapping"} -> "fetch"
      [] p \in {"transform_311", "stage_requests", "stage_demographics",
                "stage_area_map"} -> "stage/transform"
      [] p = "connect" ->
            IF m = "ETL" THEN "load/build-schema" ELSE "stage/transform"
      [] p \in {"ensure_schema", "load_fact", "load_dim_area_extended",
                "ensure_schema_and_views"} -> "load/build-schema"
      [] p = "health_check" -> "healthcheck"
      [] p \in {"success", "returned"} -> "done"
      [] p = "finally" -> IF e = NoExc THEN "done" ELSE "failed"
      [] OTHER -> "failed"

Steps == <<"fetch", "stage/transform", "load/build-schema", "healthcheck", "done">>

Rank(ph) == CHOOSE i \in 1..Len(Steps) : Steps[i] = ph

StepOrder ==
    LET a == PhaseOf(mode, pc, exc)
        b == PhaseOf(mode', pc', exc')
    IN  /\ a = "failed" => b = "failed"
        /\ b # "failed" => Rank(b) \in {Rank(a), Rank(a) + 1}
        /\ exc' # NoExc <=> b = "failed"

\* C10: every run passes through fetch, stage/transform, load/build-schema,
\* healthcheck, done in this order, a step starting only after the one before
\* it has completed; a failure in any step moves the run to the terminal
\* failed state, and no later step executes after a failure
C10_RunStateMachine == [][StepOrder]_vars

\* an ETL run has passed through every step and returned
C10_Witness ==
    /\ mode = "ETL"
    /\ pc = "returned"
    /\ Logged("Loaded rows into dim_area_extended")
    /\ Logged("HealthCheck")
    /\ Len(fact_requests) = 2

====
